---- MODULE Spec2Model ----
(***************************************************************************)
(* Model of the password security verification service                     *)
(* (supabase/functions/check-password/index.ts) and of its client helper   *)
(* (src/utils/passwordValidation.ts).                                      *)
(*                                                                         *)
(* A JavaScript string is modelled as a sequence of one-character strings, *)
(* so that length, regular-expression tests, case conversion, splitting,   *)
(* trimming, parseInt and the SHA-1 digest are all computed as the code    *)
(* computes them.                                                          *)
(***************************************************************************)
EXTENDS Integers, Sequences, FiniteSets, TLC

(***************************************************************************)
(* Characters.                                                             *)
(***************************************************************************)

\* The printable ASCII characters, code 32 (space) to 126 (~), in code order
\* (the grave accent, code 96, is written by its code point name).
Ascii ==
  <<" ", "!", "\"", "#", "$", "%", "&", "'", "(", ")", "*", "+", ",", "-", ".", "/",
    "0", "1", "2", "3", "4", "5", "6", "7", "8", "9", ":", ";", "<", "=", ">", "?",
    "@", "A", "B", "C", "D", "E", "F", "G", "H", "I", "J", "K", "L", "M", "N", "O",
    "P", "Q", "R", "S", "T", "U", "V", "W", "X", "Y", "Z", "[", "\\", "]", "^", "_",
    "U+0060", "a", "b", "c", "d", "e", "f", "g", "h", "i", "j", "k", "l", "m", "n", "o",
    "p", "q", "r", "s", "t", "u", "v", "w", "x", "y", "z", "{", "|", "}", "~">>

\* Code of the first printable character.
FirstPrintable == 32

\* The character code of c: 10 and 13 for the line ends, else its ASCII code.
CharCode(c) ==
  IF c = "\n" THEN 10
  ELSE IF c = "\r" THEN 13
  ELSE IF c = "\t" THEN 9
  ELSE (CHOOSE i \in 1..Len(Ascii) : Ascii[i] = c) + FirstPrintable - 1

IsUpperChar(c) == CharCode(c) >= 65 /\ CharCode(c) <= 90
IsLowerChar(c) == CharCode(c) >= 97 /\ CharCode(c) <= 122
IsDigitChar(c) == CharCode(c) >= 48 /\ CharCode(c) <= 57

\* String.prototype.toLowerCase / toUpperCase on ASCII text.
ToLowerCase(s) ==
  [i \in 1..Len(s) |-> IF IsUpperChar(s[i]) THEN Ascii[CharCode(s[i]) + 32 - FirstPrintable + 1]
                       ELSE s[i]]

ToUpperCase(s) ==
  [i \in 1..Len(s) |-> IF IsLowerChar(s[i]) THEN Ascii[CharCode(s[i]) - 32 - FirstPrintable + 1]
                       ELSE s[i]]

\* String.prototype.substring(from) and substring(from, to), 0-based as in JS.
Substring(s, from, to) == SubSeq(s, from + 1, IF to > Len(s) THEN Len(s) ELSE to)

SubstringFrom(s, from) == SubSeq(s, from + 1, Len(s))

(***************************************************************************)
(* SHA-1 (crypto.subtle.digest("SHA-1", ...)), on 32-bit words kept as     *)
(* pairs <<high 16 bits, low 16 bits>>.                                    *)
(***************************************************************************)

Two16 == 65536

RECURSIVE Pow2(_)
Pow2(n) == IF n = 0 THEN 1 ELSE 2 * Pow2(n - 1)

RECURSIVE BitAnd(_, _)
BitAnd(a, b) ==
  IF a = 0 \/ b = 0 THEN 0
  ELSE ((a % 2) * (b % 2)) + 2 * BitAnd(a \div 2, b \div 2)

RECURSIVE BitXor(_, _)
BitXor(a, b) ==
  IF a = 0 THEN b
  ELSE IF b = 0 THEN a
  ELSE (((a % 2) + (b % 2)) % 2) + 2 * BitXor(a \div 2, b \div 2)

BitOr(a, b) == a + b - BitAnd(a, b)

WAnd(x, y) == <<BitAnd(x[1], y[1]), BitAnd(x[2], y[2])>>
WXor(x, y) == <<BitXor(x[1], y[1]), BitXor(x[2], y[2])>>
WOr(x, y)  == <<BitOr(x[1], y[1]), BitOr(x[2], y[2])>>
WNot(x)    == <<Two16 - 1 - x[1], Two16 - 1 - x[2]>>

\* Addition modulo 2^32.
WAdd(x, y) ==
  LET lo == x[2] + y[2]
  IN  <<(x[1] + y[1] + (lo \div Two16)) % Two16, lo % Two16>>

\* Rotate left by n bits, 0 <= n < 32.
WRotl(x, n) ==
  LET w == IF n >= 16 THEN <<x[2], x[1]>> ELSE x
      k == n % 16
  IN  <<((w[1] * Pow2(k)) % Two16) + (w[2] \div Pow2(16 - k)),
        ((w[2] * Pow2(k)) % Two16) + (w[1] \div Pow2(16 - k))>>

\* The padded message: the bytes, 0x80, zeros up to 56 mod 64, and the bit
\* length as a 64-bit big-endian integer.
Sha1Pad(bytes) ==
  LET n     == Len(bytes)
      zeros == (119 - (n % 64)) % 64
      bits  == 8 * n
  IN  bytes \o <<128>> \o [i \in 1..zeros |-> 0]
      \o <<0, 0, 0, 0, (bits \div 16777216) % 256, (bits \div 65536) % 256,
           (bits \div 256) % 256, bits % 256>>

\* The 16 big-endian words of block b (0-based) of the padded message.
Sha1Block(padded, b) ==
  [j \in 1..16 |->
     LET o == 64 * b + 4 * (j - 1)
     IN  <<padded[o + 1] * 256 + padded[o + 2], padded[o + 3] * 256 + padded[o + 4]>>]

\* The message schedule extended to n words.
RECURSIVE Sha1ScheduleTo(_, _)
Sha1ScheduleTo(w, n) ==
  IF Len(w) >= n THEN w
  ELSE LET t == Len(w) + 1
       IN  Sha1ScheduleTo(Append(w,
             WRotl(WXor(WXor(w[t - 3], w[t - 8]), WXor(w[t - 14], w[t - 16])), 1)), n)

\* The message schedule, extended from 16 to 80 words (16 words at a time).
Sha1Schedule(w) ==
  Sha1ScheduleTo(Sha1ScheduleTo(Sha1ScheduleTo(Sha1ScheduleTo(w, 32), 48), 64), 80)

Sha1F(t, b, c, d) ==
  IF t < 20 THEN WOr(WAnd(b, c), WAnd(WNot(b), d))
  ELSE IF t < 40 THEN WXor(WXor(b, c), d)
  ELSE IF t < 60 THEN WOr(WOr(WAnd(b, c), WAnd(b, d)), WAnd(c, d))
  ELSE WXor(WXor(b, c), d)

Sha1K(t) ==
  IF t < 20 THEN <<23170, 31129>>        \* 0x5A827999
  ELSE IF t < 40 THEN <<28377, 60321>>   \* 0x6ED9EBA1
  ELSE IF t < 60 THEN <<36635, 48348>>   \* 0x8F1BBCDC
  ELSE <<51810, 49622>>                  \* 0xCA62C1D6

\* Rounds up to round n (exclusive): vs lists the working states
\* <<a, b, c, d, e>> so far, the initial one first, so round t (0-based)
\* runs when Len(vs) = t + 1.
RECURSIVE Sha1RoundsTo(_, _, _)
Sha1RoundsTo(vs, w, n) ==
  IF Len(vs) > n THEN vs
  ELSE LET t   == Len(vs) - 1
           v   == vs[Len(vs)]
           tmp == WAdd(WAdd(WAdd(WRotl(v[1], 5), Sha1F(t, v[2], v[3], v[4])),
                            WAdd(v[5], Sha1K(t))), w[t + 1])
       IN  Sha1RoundsTo(Append(vs, <<tmp, v[1], WRotl(v[2], 30), v[3], v[4]>>), w, n)

\* The working state after the 80 rounds (20 rounds at a time).
Sha1Rounds(h, w) ==
  Sha1RoundsTo(Sha1RoundsTo(Sha1RoundsTo(Sha1RoundsTo(<<h>>, w, 20), w, 40), w, 60), w, 80)[81]

Sha1H0 ==
  << <<26437, 8961>>,     \* 0x67452301
     <<61389, 43913>>,    \* 0xEFCDAB89
     <<39098, 56574>>,    \* 0x98BADCFE
     <<4146, 21622>>,     \* 0x10325476
     <<50130, 57840>> >>  \* 0xC3D2E1F0

RECURSIVE Sha1Blocks(_, _, _)
Sha1Blocks(padded, b, h) ==
  IF 64 * b >= Len(padded) THEN h
  ELSE LET v == Sha1Rounds(h, Sha1Schedule(Sha1Block(padded, b)))
       IN  Sha1Blocks(padded, b + 1, [i \in 1..5 |-> WAdd(h[i], v[i])])

\* The 20 digest bytes.
Sha1Digest(bytes) ==
  LET h == Sha1Blocks(Sha1Pad(bytes), 0, Sha1H0)
  IN  [i \in 1..20 |->
         LET word == h[((i - 1) \div 4) + 1]
             half == IF ((i - 1) % 4) < 2 THEN word[1] ELSE word[2]
         IN  IF (i - 1) % 2 = 0 THEN half \div 256 ELSE half % 256]

\* TextEncoder().encode on ASCII text: one byte per character.
TextEncode(message) == [i \in 1..Len(message) |-> CharCode(message[i])]

HexDigits == <<"0", "1", "2", "3", "4", "5", "6", "7", "8", "9", "a", "b", "c", "d", "e", "f">>

\* b.toString(16): lower-case hexadecimal without leading zeros.
ToString16(b) ==
  IF b < 16 THEN <<HexDigits[b + 1]>>
  ELSE <<HexDigits[(b \div 16) + 1], HexDigits[(b % 16) + 1]>>

\* s.padStart(2, "0")
PadStart2(s) == IF Len(s) < 2 THEN <<"0">> \o s ELSE s

RECURSIVE Join(_)
Join(parts) == IF parts = <<>> THEN <<>> ELSE Head(parts) \o Join(Tail(parts))

\* sha1(message): the upper-case hexadecimal rendering of the SHA-1 digest.
sha1(message) ==
  LET hashArray == Sha1Digest(TextEncode(message))
  IN  ToUpperCase(Join([i \in 1..Len(hashArray) |-> PadStart2(ToString16(hashArray[i]))]))

(***************************************************************************)
(* Text helpers used by the handler.                                       *)
(***************************************************************************)

\* String.prototype.split(sep) for a one-character separator: the pieces
\* between the separators, in order (a text without separator is one piece,
\* n separators give n + 1 pieces).
Split(s, sep) ==
  LET at     == {i \in 1..Len(s) : s[i] = sep}
      nth(k) == IF k = 0 THEN 0
                ELSE IF k > Cardinality(at) THEN Len(s) + 1
                ELSE CHOOSE i \in at : Cardinality({j \in at : j < i}) = k - 1
  IN  [k \in 1..(Cardinality(at) + 1) |-> SubSeq(s, nth(k - 1) + 1, nth(k) - 1)]

IsWhiteSpace(c) == c \in {" ", "\t", "\n", "\r"}

\* String.prototype.trim: white space removed at both ends.
Trim(s) ==
  LET keep == {i \in 1..Len(s) : ~IsWhiteSpace(s[i])}
  IN  IF keep = {} THEN <<>>
      ELSE SubSeq(s, CHOOSE i \in keep : \A j \in keep : i <= j,
                     CHOOSE i \in keep : \A j \in keep : i >= j)

\* The value parseInt gives when there is no digit.
NaN == <<"NaN">>

RECURSIVE DigitsValue(_, _, _)
DigitsValue(s, i, acc) ==
  IF i > Len(s) \/ ~IsDigitChar(s[i]) THEN acc
  ELSE DigitsValue(s, i + 1, 10 * acc + (CharCode(s[i]) - 48))

\* parseInt(s) with no radix, on decimal text: leading white space is
\* skipped, an optional sign is read, then the longest run of digits; NaN
\* when there is no digit.
parseInt(s) ==
  LET keep  == {i \in 1..Len(s) : ~IsWhiteSpace(s[i])}
      start == IF keep = {} THEN Len(s) + 1 ELSE CHOOSE i \in keep : \A j \in keep : i <= j
      neg   == start <= Len(s) /\ s[start] = "-"
      first == IF start <= Len(s) /\ s[start] \in {"-", "+"} THEN start + 1 ELSE start
  IN  IF first > Len(s) \/ ~IsDigitChar(s[first]) THEN NaN
      ELSE <<"number", IF neg THEN 0 - DigitsValue(s, first, 0) ELSE DigitsValue(s, first, 0)>>

\* JSON.stringify of a number: NaN is written as null.
JsonOfNumber(v) == IF v = NaN THEN <<"null">> ELSE v

(***************************************************************************)
(* Policy evaluator (index.ts lines 37-65).                                *)
(***************************************************************************)

MinLength == 12

IssueLength  == "Password must be at least 12 characters long"
IssueUpper   == "Password must contain at least one uppercase letter"
IssueLower   == "Password must contain at least one lowercase letter"
IssueNumber  == "Password must contain at least one number"
IssueSpecial == "Password must contain at least one special character"
IssueCommon  == "This password is too common and easily guessed"

commonPasswords ==
  << <<"p", "a", "s", "s", "w", "o", "r", "d">>,
     <<"p", "a", "s", "s", "w", "o", "r", "d", "1", "2", "3">>,
     <<"1", "2", "3", "4", "5", "6", "7", "8">>,
     <<"q", "w", "e", "r", "t", "y">>,
     <<"a", "b", "c", "1", "2", "3">>,
     <<"m", "o", "n", "k", "e", "y">>,
     <<"1", "2", "3", "4", "5", "6", "7">>,
     <<"l", "e", "t", "m", "e", "i", "n">>,
     <<"t", "r", "u", "s", "t", "n", "o", "1">>,
     <<"d", "r", "a", "g", "o", "n">>,
     <<"b", "a", "s", "e", "b", "a", "l", "l">>,
     <<"i", "l", "o", "v", "e", "y", "o", "u">>,
     <<"m", "a", "s", "t", "e", "r">>,
     <<"s", "u", "n", "s", "h", "i", "n", "e">>,
     <<"a", "s", "h", "l", "e", "y">>,
     <<"w", "e", "l", "c", "o", "m", "e">>,
     <<"a", "d", "m", "i", "n">>,
     <<"r", "o", "o", "t">>,
     <<"1", "2", "3", "4", "5", "6", "7", "8", "9">>,
     <<"1", "2", "3", "4", "5", "6", "7", "8", "9", "1", "0">> >>

\* Array.prototype.includes
Includes(arr, v) == \E i \in 1..Len(arr) : arr[i] = v

\* The regular-expression tests /[A-Z]/, /[a-z]/, /[0-9]/ and /[^A-Za-z0-9]/.
TestUpper(password)   == \E i \in 1..Len(password) : IsUpperChar(password[i])
TestLower(password)   == \E i \in 1..Len(password) : IsLowerChar(password[i])
TestDigit(password)   == \E i \in 1..Len(password) : IsDigitChar(password[i])
TestSpecial(password) ==
  \E i \in 1..Len(password) :
     ~(IsUpperChar(password[i]) \/ IsLowerChar(password[i]) \/ IsDigitChar(password[i]))

\* StrengthIssues looking the password up in the deny-list as typed, without
\* lower-casing it.
StrengthIssuesCaseSensitive(password) ==
  (IF Len(password) < MinLength THEN <<IssueLength>> ELSE <<>>)
  \o (IF ~TestUpper(password) THEN <<IssueUpper>> ELSE <<>>)
  \o (IF ~TestLower(password) THEN <<IssueLower>> ELSE <<>>)
  \o (IF ~TestDigit(password) THEN <<IssueNumber>> ELSE <<>>)
  \o (IF ~TestSpecial(password) THEN <<IssueSpecial>> ELSE <<>>)
  \o (IF Includes(commonPasswords, password) THEN <<IssueCommon>> ELSE <<>>)

\* StrengthIssues running the deny-list rule before the composition rules.
StrengthIssuesCommonFirst(password) ==
  (IF Includes(commonPasswords, ToLowerCase(password)) THEN <<IssueCommon>> ELSE <<>>)
  \o (IF Len(password) < MinLength THEN <<IssueLength>> ELSE <<>>)
  \o (IF ~TestUpper(password) THEN <<IssueUpper>> ELSE <<>>)
  \o (IF ~TestLower(password) THEN <<IssueLower>> ELSE <<>>)
  \o (IF ~TestDigit(password) THEN <<IssueNumber>> ELSE <<>>)
  \o (IF ~TestSpecial(password) THEN <<IssueSpecial>> ELSE <<>>)

\* StrengthIssues stopping at the first rule that fails (an else-if chain).
StrengthIssuesFirstOnly(password) ==
  IF Len(password) < MinLength THEN <<IssueLength>>
  ELSE IF ~TestUpper(password) THEN <<IssueUpper>>
  ELSE IF ~TestLower(password) THEN <<IssueLower>>
  ELSE IF ~TestDigit(password) THEN <<IssueNumber>>
  ELSE IF ~TestSpecial(password) THEN <<IssueSpecial>>
  ELSE IF Includes(commonPasswords, ToLowerCase(password)) THEN <<IssueCommon>>
  ELSE <<>>

\* StrengthIssues with the length rule off by one (<= instead of <).
StrengthIssuesOffByOne(password) ==
  (IF Len(password) <= MinLength THEN <<IssueLength>> ELSE <<>>)
  \o (IF ~TestUpper(password) THEN <<IssueUpper>> ELSE <<>>)
  \o (IF ~TestLower(password) THEN <<IssueLower>> ELSE <<>>)
  \o (IF ~TestDigit(password) THEN <<IssueNumber>> ELSE <<>>)
  \o (IF ~TestSpecial(password) THEN <<IssueSpecial>> ELSE <<>>)
  \o (IF Includes(commonPasswords, ToLowerCase(password)) THEN <<IssueCommon>> ELSE <<>>)

\* The strengthIssues array after all six rules have run, in push order.
StrengthIssues(password) ==
  (IF Len(password) < MinLength THEN <<IssueLength>> ELSE <<>>)
  \o (IF ~TestUpper(password) THEN <<IssueUpper>> ELSE <<>>)
  \o (IF ~TestLower(password) THEN <<IssueLower>> ELSE <<>>)
  \o (IF ~TestDigit(password) THEN <<IssueNumber>> ELSE <<>>)
  \o (IF ~TestSpecial(password) THEN <<IssueSpecial>> ELSE <<>>)
  \o (IF Includes(commonPasswords, ToLowerCase(password)) THEN <<IssueCommon>> ELSE <<>>)

\* HasIssues with the threshold off by one.
HasIssuesOffByOne(issues) == Len(issues) > 1

\* strengthIssues.length > 0
HasIssues(issues) == Len(issues) > 0

(***************************************************************************)
(* Requests, responses and the outbound call.                              *)
(***************************************************************************)

corsHeaders ==
  { <<"Access-Control-Allow-Origin", "*">>,
    <<"Access-Control-Allow-Methods", "POST, OPTIONS">>,
    <<"Access-Control-Allow-Headers", "Content-Type, Authorization, X-Client-Info, Apikey">> }


NoBody == [kind |-> "none"]

\* JsonResponse with the content type as its only header.
JsonResponseNoCors(status, json) ==
  [status |-> status, headers |-> { <<"Content-Type", "application/json">> }, body |-> json]

\* new Response(JSON.stringify(json), { status, headers })
JsonResponse(status, json) ==
  [status |-> status,
   headers |-> corsHeaders \cup { <<"Content-Type", "application/json">> },
   body |-> json]

\* JavaScript values a decoded "password" field can hold.
JsString(s) == <<"string", s>>
JsUndefined == <<"undefined">>
JsNumber(n) == <<"number", n>>

TypeOf(v) == IF v[1] = "null" THEN "object" ELSE v[1]

\* !v
Falsy(v) ==
  \/ v[1] \in {"undefined", "null"}
  \/ v[1] = "string" /\ v[2] = <<>>
  \/ v[1] = "number" /\ v[2] = 0
  \/ v[1] = "boolean" /\ v[2] = FALSE

ApiBase == <<"h", "t", "t", "p", "s", ":", "/", "/", "a", "p", "i", ".", "p", "w", "n", "e", "d", "p", "a", "s", "s", "w", "o", "r", "d", "s", ".", "c", "o", "m", "/", "r", "a", "n", "g", "e", "/">>

\* The request fetch() sends: a GET (no method, no body given) of the range
\* URL for the prefix, with the Add-Padding header.
RangeRequest(prefix) ==
  [method  |-> "GET",
   url     |-> ApiBase \o prefix,
   headers |-> { <<"Add-Padding", "true">> },
   body    |-> NoBody]

\* HashPrefix that keeps the whole digest.
HashPrefixWhole(hash) == hash

\* hash.substring(0, 5)
HashPrefix(hash) == Substring(hash, 0, 5)

\* hash.substring(5)
HashSuffix(hash) == SubstringFrom(hash, 5)

\* response.ok taken as "not a server error".
OkBelow500(status) == status >= 200 /\ status <= 499

\* response.ok
Ok(status) == status >= 200 /\ status <= 299

MsgRequired  == "Password is required"
MsgDegraded  == "Unable to check password breach status, but password meets strength requirements"
MsgBreached  == "This password has been exposed in a data breach"
MsgSecure    == "Password is secure"
MsgInternal  == "Internal server error"

\* error.message of the exceptions the handler can meet: a fixed text and,
\* where the runtime quotes its input in the message, the quoted characters.
ErrorMessage(text, excerpt) == [text |-> text, excerpt |-> excerpt]

ErrFetch == ErrorMessage("error sending request", <<>>)
ErrTrim  == ErrorMessage("Cannot read properties of undefined (reading 'trim')", <<>>)

\* The SyntaxError of req.json().  The JSON parser of the runtime quotes its
\* source in the message of an unexpected token: the whole text when it is
\* shorter than twice the context plus one, else the characters from
\* MaxContextCharacters before the token to MaxContextCharacters after it.
MaxContextCharacters == 10

Excerpt(text, at) ==
  IF Len(text) < 2 * MaxContextCharacters + 1 THEN text
  ELSE LET from == IF at > MaxContextCharacters THEN at - MaxContextCharacters ELSE 0
           to   == IF at + MaxContextCharacters < Len(text)
                   THEN at + MaxContextCharacters ELSE Len(text)
       IN  SubSeq(text, from + 1, to)

ErrJson(body) ==
  IF body.text = <<>>
  THEN ErrorMessage("Unexpected end of JSON input", <<>>)
  ELSE ErrorMessage("Unexpected token, is not valid JSON", Excerpt(body.text, body.at))

\* CatchResponse without the details of the error.
CatchResponseNoDetails(message) == JsonResponse(500, [error |-> MsgInternal])

\* The catch block: the response for a caught error.
CatchResponse(message) == JsonResponse(500, [error |-> MsgInternal, details |-> message])

WeakResponse(issues) ==
  JsonResponse(200, [isBreached |-> FALSE, isWeak |-> TRUE, issues |-> issues])

\* DegradedResponse that flags the password weak.
DegradedResponseWeak ==
  JsonResponse(200, [isBreached |-> FALSE, isWeak |-> TRUE, apiError |-> TRUE,
                     message |-> MsgDegraded])

DegradedResponse ==
  JsonResponse(200, [isBreached |-> FALSE, isWeak |-> FALSE, apiError |-> TRUE,
                     message |-> MsgDegraded])

\* BreachedResponse that also flags the password weak.
BreachedResponseAlsoWeak(count) ==
  JsonResponse(200, [isBreached |-> TRUE, isWeak |-> TRUE,
                     breachCount |-> JsonOfNumber(parseInt(Trim(count))),
                     message |-> MsgBreached])

BreachedResponse(count) ==
  JsonResponse(200, [isBreached |-> TRUE, isWeak |-> FALSE,
                     breachCount |-> JsonOfNumber(parseInt(Trim(count))),
                     message |-> MsgBreached])

SecureResponse ==
  JsonResponse(200, [isBreached |-> FALSE, isWeak |-> FALSE, message |-> MsgSecure])

\* PreflightResponse answering 204 No Content.
PreflightResponse204 == [status |-> 204, headers |-> corsHeaders, body |-> NoBody]

\* The answer to a preflight: new Response(null, { status: 200, headers: corsHeaders })
PreflightResponse == [status |-> 200, headers |-> corsHeaders, body |-> NoBody]

\* BadRequestResponse with a payload that names the field.
BadRequestResponseOtherPayload ==
  JsonResponse(400, [error |-> MsgRequired, field |-> "password"])

\* The answer to a request without a password string.
BadRequestResponse == JsonResponse(400, [error |-> MsgRequired])

\* ScanLines comparing the suffix without regard to letter case.
RECURSIVE ScanLinesIgnoreCase(_, _, _)
ScanLinesIgnoreCase(hashes, i, suffix) ==
  IF i > Len(hashes) THEN [kind |-> "return", response |-> SecureResponse]
  ELSE LET fields == Split(hashes[i], ":")
       IN  IF ToUpperCase(fields[1]) = suffix
           THEN IF Len(fields) < 2 THEN [kind |-> "throw", message |-> ErrTrim]
                ELSE [kind |-> "return", response |-> BreachedResponse(fields[2])]
           ELSE ScanLinesIgnoreCase(hashes, i + 1, suffix)

\* ScanLines that goes on to the last line whose first field equals suffix.
RECURSIVE ScanLinesLast(_, _, _)
ScanLinesLast(hashes, i, suffix) ==
  IF i > Len(hashes) THEN [kind |-> "return", response |-> SecureResponse]
  ELSE LET fields == Split(hashes[i], ":")
       IN  IF /\ fields[1] = suffix
              /\ \A j \in (i + 1)..Len(hashes) : Split(hashes[j], ":")[1] # suffix
           THEN IF Len(fields) < 2 THEN [kind |-> "throw", message |-> ErrTrim]
                ELSE [kind |-> "return", response |-> BreachedResponse(fields[2])]
           ELSE ScanLinesLast(hashes, i + 1, suffix)

\* The loop over the lines of the remote text, from line i on: the response
\* of the first line whose first field equals suffix, or the clean response;
\* "throw" when that line has no second field (count is undefined).
RECURSIVE ScanLines(_, _, _)
ScanLines(hashes, i, suffix) ==
  IF i > Len(hashes) THEN [kind |-> "return", response |-> SecureResponse]
  ELSE LET fields == Split(hashes[i], ":")
       IN  IF fields[1] = suffix
           THEN IF Len(fields) < 2 THEN [kind |-> "throw", message |-> ErrTrim]
                ELSE [kind |-> "return", response |-> BreachedResponse(fields[2])]
           ELSE ScanLines(hashes, i + 1, suffix)

(***************************************************************************)
(* Inputs: the requests and the remote answers the model draws from.       *)
(***************************************************************************)

\* Longest password enumerated character by character.
MaxShortLen == 2

\* Most lines in a remote body.
MaxLines == 2


\* All sequences over S of length at most n.
RECURSIVE SeqsUpTo(_, _)
SeqsUpTo(S, n) ==
  IF n = 0 THEN { <<>> }
  ELSE LET shorter == SeqsUpTo(S, n - 1)
       IN  shorter \cup { Append(q, c) : q \in shorter, c \in S }

PwPassword == <<"p", "a", "s", "s", "w", "o", "r", "d">>
PwPasswordCap == <<"P", "a", "s", "s", "w", "o", "r", "d">>
PwPassword123Bang == <<"P", "a", "s", "s", "w", "o", "r", "d", "1", "2", "3", "!">>
PwDigits == <<"1", "2", "3", "4", "5", "6", "7", "8", "9", "1", "0">>
PwElevenAllClasses == <<"A", "b", "c", "d", "e", "f", "g", "h", "1", "!", "x">>
PwTwelve == <<"T", "r", "0", "u", "b", "4", "d", "o", "r", "&", "3", "x">>
PwSummer == <<"S", "u", "m", "m", "e", "r", "!", "2", "0", "2", "7", "!", "o", "k">>
PwSpring == <<"S", "p", "r", "i", "n", "g", "-", "2", "0", "1", "0", "-", "o", "k">>

\* PwSummer and PwSpring have SHA-1 digests with the same first five
\* hexadecimal characters (DD6A0).
NamedPasswords ==
  { PwPassword, PwPasswordCap, PwPassword123Bang, PwDigits,
    PwElevenAllClasses, PwTwelve, PwSummer, PwSpring,
    <<"P", "A", "S", "S", "W", "O", "R", "D", "1", "2", "3">>,
    <<"a", "b", "c", "d", "e", "f", "g", "h", "i", "j", "k", "1", "!">>,
    <<"A", "B", "C", "D", "E", "F", "G", "H", "I", "J", "K", "1", "!">>,
    <<"A", "b", "c", "d", "e", "f", "g", "h", "i", "j", "k", "l", "!">>,
    <<"A", "b", "c", "d", "e", "f", "g", "h", "i", "j", "k", "1", "2">> }

\* The short passwords are over one character of each class the rules tell
\* apart.
Passwords == SeqsUpTo({"A", "a", "1", "!"}, MaxShortLen) \cup NamedPasswords

Methods == {"POST", "OPTIONS", "PUT"}

\* Request bodies: text that is not JSON, or a JSON object whose password
\* field is absent, not a string, or a string.
InvalidBody(text, at, holds) ==
  [kind |-> "invalid", text |-> text, at |-> at, holds |-> holds]

\* Bodies that are not JSON: no text at all, a password sent as it is, and
\* an object whose password is not quoted.  at is the offset of the token
\* the parser stops at, holds the password a caller has put in the text.
InvalidBodies ==
  { InvalidBody(<<>>, 0, <<>>),
    InvalidBody(PwTwelve, 0, PwTwelve),
    InvalidBody(<<"{", "\"", "p", "a", "s", "s", "w", "o", "r", "d", "\"", ":", " ">>
                  \o PwTwelve \o <<"}">>, 13, PwTwelve) }

Bodies ==
  InvalidBodies
  \cup { [kind |-> "object", password |-> v] :
           v \in { JsUndefined, <<"null">>, JsNumber(0), JsNumber(7), <<"boolean", TRUE>> } }
  \cup { [kind |-> "object", password |-> JsString(p)] : p \in Passwords }

Requests == [method : Methods, body : Bodies]

Statuses == {200, 404, 500, 503}

OtherSuffix == <<"0", "0", "1", "8", "A", "4", "5", "C", "4", "D", "1", "D", "E", "F", "8", "1", "6", "4", "4", "B", "5", "4", "A", "B", "7", "F", "9", "6", "9", "B", "8", "8", "D", "6", "5">>

Colon == <<":">>

\* The lines a remote body is made of, for the suffix asked about: records
\* SUFFIX:COUNT for the suffix itself, for near misses (other letter case,
\* one character shorter, one longer) and for another hash, and lines that
\* are not records (blank, no separator, no count).
Lines(suffix) ==
  { suffix \o Colon \o <<"3", "7", "3", "0", "4", "7", "1">>,
    suffix \o Colon \o <<"0">>,
    ToLowerCase(suffix) \o Colon \o <<"5">>,
    SubSeq(suffix, 1, Len(suffix) - 1) \o Colon \o <<"7">>,
    suffix \o <<"0">> \o Colon \o <<"9">>,
    OtherSuffix \o Colon \o <<"2">>,
    <<>>, suffix, suffix \o Colon }

\* The lines joined by the line end.
RECURSIVE JoinLines(_, _)
JoinLines(lines, eol) ==
  IF lines = <<>> THEN <<>>
  ELSE IF Len(lines) = 1 THEN lines[1]
  ELSE lines[1] \o eol \o JoinLines(Tail(lines), eol)

Texts(suffix) ==
  { JoinLines(ls, eol) : ls \in SeqsUpTo(Lines(suffix), MaxLines),
                        eol \in { <<"\n">>, <<"\r", "\n">> } }

(***************************************************************************)
(* State.                                                                  *)
(***************************************************************************)

VARIABLES
  pc,              \* "idle", "fetching" (suspended in await fetch), "done"
  req,             \* the request being handled
  strengthIssues,  \* the handler's strengthIssues array
  prefix,          \* hash.substring(0, 5)
  suffix,          \* hash.substring(5)
  outbound,        \* the requests this evaluation has sent to the corpus
  remote,          \* what the outbound call came back with
  resp,            \* the response returned to the caller
  log,             \* what console.error has written
  prev,            \* what is kept of the previous evaluation for comparison
  client,          \* the browser's call of checkPassword
  parked,          \* the evaluations suspended in await fetch while another
                   \* request is being handled
  scrape           \* the scrape pipeline: its handler and the scrapes table

vars == <<pc, req, strengthIssues, prefix, suffix, outbound, remote, resp, log, prev,
          client, parked, scrape>>

NoRequest == [kind |-> "none"]
NoResponse == [kind |-> "none"]
NoRemote == [kind |-> "none"]
NoPrev == [kind |-> "none"]

\* No call of checkPassword is under way.
ClientIdle == [pc |-> "idle"]

\* The scrape handler is idle and the scrapes table is empty.

Init ==
  /\ pc = "idle"
  /\ req = NoRequest
  /\ strengthIssues = <<>>
  /\ prefix = <<>>
  /\ suffix = <<>>
  /\ outbound = <<>>
  /\ remote = NoRemote
  /\ resp = NoResponse
  /\ log = <<>>
  /\ prev = NoPrev
  /\ client = ClientIdle
  /\ parked = <<>>
  /\ scrape = [pc |-> "idle", table |-> <<>>]

\* Return a response: the evaluation is over.
Return(response) ==
  /\ pc' = "done"
  /\ resp' = response

\* Receive that answers 405 to every method but POST and OPTIONS.
ReceivePostOnly(r) ==
  /\ pc = "idle"
  /\ req' = r
  /\ remote' = remote
  /\ prev' = prev
  /\ IF r.method = "OPTIONS"
     THEN /\ Return(PreflightResponse)
          /\ UNCHANGED <<strengthIssues, prefix, suffix, outbound, log>>
     ELSE IF r.method # "POST"
     THEN /\ Return(JsonResponse(405, [error |-> "Method not allowed"]))
          /\ UNCHANGED <<strengthIssues, prefix, suffix, outbound, log>>
     ELSE IF r.body.kind = "invalid"
     THEN /\ Return(CatchResponse(ErrJson(r.body)))
          /\ log' = Append(log, <<"Error checking password:", ErrJson(r.body)>>)
          /\ UNCHANGED <<strengthIssues, prefix, suffix, outbound>>
     ELSE IF Falsy(r.body.password) \/ TypeOf(r.body.password) # "string"
     THEN /\ Return(BadRequestResponse)
          /\ UNCHANGED <<strengthIssues, prefix, suffix, outbound, log>>
     ELSE LET password == r.body.password[2]
              issues   == StrengthIssues(password)
              hash     == sha1(password)
          IN  /\ strengthIssues' = issues
              /\ log' = log
              /\ IF HasIssues(issues)
                 THEN /\ Return(WeakResponse(issues))
                      /\ UNCHANGED <<prefix, suffix, outbound>>
                 ELSE /\ prefix' = HashPrefix(hash)
                      /\ suffix' = HashSuffix(hash)
                      /\ outbound' = Append(outbound, RangeRequest(HashPrefix(hash)))
                      /\ pc' = "fetching"
                      /\ resp' = resp

\* Receive with the strengthIssues array kept at module scope, so that the
\* issues of the previous evaluation are still in it.
ReceiveSharedIssues(r) ==
  /\ pc = "idle"
  /\ req' = r
  /\ remote' = remote
  /\ prev' = prev
  /\ IF r.method = "OPTIONS"
     THEN /\ Return(PreflightResponse)
          /\ UNCHANGED <<strengthIssues, prefix, suffix, outbound, log>>
     ELSE IF r.body.kind = "invalid"
     THEN /\ Return(CatchResponse(ErrJson(r.body)))
          /\ log' = Append(log, <<"Error checking password:", ErrJson(r.body)>>)
          /\ UNCHANGED <<strengthIssues, prefix, suffix, outbound>>
     ELSE IF Falsy(r.body.password) \/ TypeOf(r.body.password) # "string"
     THEN /\ Return(BadRequestResponse)
          /\ UNCHANGED <<strengthIssues, prefix, suffix, outbound, log>>
     ELSE LET password == r.body.password[2]
              kept     == IF prev.kind = "evaluation" /\ "issues" \in DOMAIN prev.resp.body
                          THEN prev.resp.body.issues ELSE <<>>
              issues   == kept \o StrengthIssues(password)
              hash     == sha1(password)
          IN  /\ strengthIssues' = issues
              /\ log' = log
              /\ IF HasIssues(issues)
                 THEN /\ Return(WeakResponse(issues))
                      /\ UNCHANGED <<prefix, suffix, outbound>>
                 ELSE /\ prefix' = HashPrefix(hash)
                      /\ suffix' = HashSuffix(hash)
                      /\ outbound' = Append(outbound, RangeRequest(HashPrefix(hash)))
                      /\ pc' = "fetching"
                      /\ resp' = resp

(***************************************************************************)
(* The handler, from the arrival of a request to its first suspension in   *)
(* the outbound call or to its response (index.ts lines 16-94).            *)
(***************************************************************************)
Receive(r) ==
  /\ pc = "idle"
  /\ req' = r
  /\ remote' = remote
  /\ prev' = prev
  /\ IF r.method = "OPTIONS"
     THEN /\ Return(PreflightResponse)
          /\ UNCHANGED <<strengthIssues, prefix, suffix, outbound, log>>
     ELSE IF r.body.kind = "invalid"
     THEN /\ Return(CatchResponse(ErrJson(r.body)))
          /\ log' = Append(log, <<"Error checking password:", ErrJson(r.body)>>)
          /\ UNCHANGED <<strengthIssues, prefix, suffix, outbound>>
     ELSE IF Falsy(r.body.password) \/ TypeOf(r.body.password) # "string"
     THEN /\ Return(BadRequestResponse)
          /\ UNCHANGED <<strengthIssues, prefix, suffix, outbound, log>>
     ELSE LET password == r.body.password[2]
              issues   == StrengthIssues(password)
              hash     == sha1(password)
          IN  /\ strengthIssues' = issues
              /\ log' = log
              /\ IF HasIssues(issues)
                 THEN /\ Return(WeakResponse(issues))
                      /\ UNCHANGED <<prefix, suffix, outbound>>
                 ELSE /\ prefix' = HashPrefix(hash)
                      /\ suffix' = HashSuffix(hash)
                      /\ outbound' = Append(outbound, RangeRequest(HashPrefix(hash)))
                      /\ pc' = "fetching"
                      /\ resp' = resp

\* FetchRejects that sends the request a second time after a first failure.
FetchRejectsRetry ==
  /\ pc = "fetching"
  /\ IF Len(outbound) < 2
     THEN /\ outbound' = Append(outbound, RangeRequest(prefix))
          /\ UNCHANGED <<pc, resp, remote, log>>
     ELSE /\ remote' = [kind |-> "rejected"]
          /\ log' = Append(log, <<"Error checking password:", ErrFetch>>)
          /\ Return(CatchResponse(ErrFetch))
          /\ outbound' = outbound
  /\ UNCHANGED <<req, strengthIssues, prefix, suffix, prev>>

(***************************************************************************)
(* The outbound call fails at the network level: fetch rejects, the        *)
(* exception reaches the catch block (index.ts lines 87-94, 148-160).      *)
(***************************************************************************)
FetchRejects ==
  /\ pc = "fetching"
  /\ remote' = [kind |-> "rejected"]
  /\ log' = Append(log, <<"Error checking password:", ErrFetch>>)
  /\ Return(CatchResponse(ErrFetch))
  /\ UNCHANGED <<req, strengthIssues, prefix, suffix, outbound, prev>>

\* FetchResponds that asks the corpus again when the status is not a
\* success, instead of answering.
FetchRespondsRetrying(status, text) ==
  /\ pc = "fetching"
  /\ remote' = [kind |-> "response", status |-> status, text |-> text]
  /\ IF ~Ok(status)
     THEN UNCHANGED <<pc, resp, log>>
     ELSE LET hashes == Split(text, "\n")
              scan   == ScanLines(hashes, 1, suffix)
          IN  IF scan.kind = "throw"
              THEN /\ log' = Append(log, <<"Error checking password:", scan.message>>)
                   /\ Return(CatchResponse(scan.message))
              ELSE /\ log' = log
                   /\ Return(scan.response)
  /\ UNCHANGED <<req, strengthIssues, prefix, suffix, outbound, prev>>

(***************************************************************************)
(* The outbound call returns a response with the given status and body     *)
(* text; the handler runs to its response (index.ts lines 96-160).         *)
(***************************************************************************)
FetchResponds(status, text) ==
  /\ pc = "fetching"
  /\ remote' = [kind |-> "response", status |-> status, text |-> text]
  /\ IF ~Ok(status)
     THEN /\ log' = Append(log, <<"HaveIBeenPwned API error:", status>>)
          /\ Return(DegradedResponse)
     ELSE LET hashes == Split(text, "\n")
              scan   == ScanLines(hashes, 1, suffix)
          IN  IF scan.kind = "throw"
              THEN /\ log' = Append(log, <<"Error checking password:", scan.message>>)
                   /\ Return(CatchResponse(scan.message))
              ELSE /\ log' = log
                   /\ Return(scan.response)
  /\ UNCHANGED <<req, strengthIssues, prefix, suffix, outbound, prev>>

(***************************************************************************)
(* The evaluation is over and the next request can arrive: the handler's   *)
(* locals are gone, nothing of the evaluation is kept by the service.      *)
(***************************************************************************)
Reset ==
  /\ pc = "done"
  /\ pc' = "idle"
  /\ req' = NoRequest
  /\ strengthIssues' = <<>>
  /\ prefix' = <<>>
  /\ suffix' = <<>>
  /\ outbound' = <<>>
  /\ remote' = NoRemote
  /\ resp' = NoResponse
  /\ log' = <<>>

NextRequest ==
  /\ Reset
  /\ prev' = prev
  /\ UNCHANGED <<client, parked, scrape>>

\* A request arrives at the idle service.
Arrive ==
  /\ pc = "idle"
  /\ \E r \in Requests : Receive(r)
  /\ UNCHANGED <<client, parked, scrape>>

\* The outbound call fails.
Fail ==
  /\ FetchRejects
  /\ UNCHANGED <<client, parked, scrape>>

\* The corpus answers the pending outbound call.
Answer ==
  /\ pc = "fetching"
  /\ \E status \in Statuses : \E text \in Texts(suffix) : FetchResponds(status, text)
  /\ UNCHANGED <<client, parked, scrape>>

Next ==
  \/ Arrive
  \/ Fail
  \/ Answer
  \/ NextRequest

Spec == Init /\ [][Next]_vars

(***************************************************************************)
(* Two evaluations in a row, the outbound traffic of the first kept for    *)
(* comparison with the second: requests whose password passes the policy,  *)
(* remote answers of at most one line.                                     *)
(***************************************************************************)

\* As NextRequest, with the password and the outbound requests of an
\* evaluation that reached the breach lookup noted in prev.
NextRequestObserved ==
  /\ Reset
  /\ prev' = IF outbound # <<>>
             THEN [kind |-> "lookup", password |-> req.body.password[2],
                   prefix |-> prefix, outbound |-> outbound]
             ELSE prev
  /\ UNCHANGED <<client, parked, scrape>>

LookupRequests ==
  { r \in Requests : /\ r.method = "POST"
                     /\ r.body.kind = "object"
                     /\ r.body.password[1] = "string"
                     /\ r.body.password[2] \in NamedPasswords
                     /\ Len(r.body.password[2]) >= MinLength }

ArriveLookup ==
  /\ pc = "idle"
  /\ \E r \in LookupRequests : Receive(r)
  /\ UNCHANGED <<client, parked, scrape>>

AnswerOneLine ==
  /\ pc = "fetching"
  /\ \E status \in Statuses : \E text \in Lines(suffix) : FetchResponds(status, text)
  /\ UNCHANGED <<client, parked, scrape>>

NextPair ==
  \/ ArriveLookup
  \/ Fail
  \/ AnswerOneLine
  \/ NextRequestObserved

SpecPair == Init /\ [][NextPair]_vars

(***************************************************************************)
(* Two evaluations in a row against a stubbed corpus, the whole of the     *)
(* first (request, remote answer, response) kept for comparison with the   *)
(* second.                                                                 *)
(***************************************************************************)

\* As NextRequest, with the evaluation that is over noted in prev.
NextRequestRemembered ==
  /\ Reset
  /\ prev' = [kind |-> "evaluation", req |-> req, remote |-> remote, resp |-> resp]
  /\ UNCHANGED <<client, parked, scrape>>

TwiceStatuses == { 200, 503 }

TwiceRequests ==
  { r \in Requests : \/ r.body.kind = "invalid"
                     \/ /\ r.body.kind = "object"
                        /\ \/ r.body.password = JsUndefined
                           \/ /\ r.body.password[1] = "string"
                              /\ r.body.password[2] \in { PwPassword, PwTwelve, PwSummer } }

ArriveTwice ==
  /\ pc = "idle"
  /\ \E r \in TwiceRequests : Receive(r)
  /\ UNCHANGED <<client, parked, scrape>>

AnswerTwice ==
  /\ pc = "fetching"
  /\ \E status \in TwiceStatuses : \E text \in Lines(suffix) : FetchResponds(status, text)
  /\ UNCHANGED <<client, parked, scrape>>

NextTwice ==
  \/ ArriveTwice
  \/ Fail
  \/ AnswerTwice
  \/ NextRequestRemembered

SpecTwice == Init /\ [][NextTwice]_vars

(***************************************************************************)
(* The service under the assumption that an outbound call that has been    *)
(* made settles: fetch resolves or rejects in the end.  Nothing else is    *)
(* assumed; requests need not arrive.                                      *)
(***************************************************************************)

\* The pending outbound call settles, one way or the other.
Settle ==
  \/ Fail
  \/ AnswerOneLine

NextLive ==
  \/ ArriveTwice
  \/ Settle
  \/ NextRequest

SpecLive == Init /\ [][NextLive]_vars /\ WF_vars(Settle)

(***************************************************************************)
(* The browser's helper checkPassword (passwordValidation.ts) calling the  *)
(* service.                                                                *)
(***************************************************************************)

serverVars == <<pc, req, strengthIssues, prefix, suffix, outbound, remote, resp, log>>

\* The request fetch(apiUrl, { method: 'POST', ..., body: JSON.stringify({ password }) })
\* sends.
ClientRequest(password) ==
  [method |-> "POST", body |-> [kind |-> "object", password |-> JsString(password)]]

\* The result returned from the catch block of checkPassword.
FailureResult ==
  [isBreached |-> FALSE, isWeak |-> FALSE,
   message |-> "Unable to verify password security", apiError |-> TRUE]

\* What the awaited fetch of checkPassword can come to.
FetchFailed == [kind |-> "rejected"]
FetchSettled(response) ==
  [kind |-> "response", status |-> response.status, body |-> response.body]

\* checkPassword without its try/catch: a failure rejects the promise.
checkPasswordNoCatch(outcome) ==
  IF outcome.kind = "rejected"
  THEN [pc |-> "rejected", result |-> [error |-> "Failed to fetch"], logged |-> <<>>]
  ELSE IF ~Ok(outcome.status)
  THEN [pc |-> "rejected", result |-> [error |-> "Failed to check password"],
        logged |-> <<>>]
  ELSE [pc |-> "resolved", result |-> outcome.body, logged |-> <<>>]

\* checkPassword from the settling of its fetch to its return: a rejected
\* fetch and the Error thrown for !response.ok both land in the catch block,
\* otherwise the parsed JSON of the body is returned.
checkPassword(outcome) ==
  IF outcome.kind = "rejected"
  THEN [pc |-> "resolved", result |-> FailureResult,
        logged |-> << <<"Error checking password:", "Failed to fetch">> >>]
  ELSE IF ~Ok(outcome.status)
  THEN [pc |-> "resolved", result |-> FailureResult,
        logged |-> << <<"Error checking password:", "Failed to check password">> >>]
  ELSE [pc |-> "resolved", result |-> outcome.body, logged |-> <<>>]

\* !result, result.isBreached and result.isWeak as conditions.
NullResult == [kind |-> "null"]
Truthy(result, field) == field \in DOMAIN result /\ result[field] = TRUE

getPasswordStrengthColor(result) ==
  IF result = NullResult THEN "bg-gray-200"
  ELSE IF Truthy(result, "isBreached") THEN "bg-red-500"
  ELSE IF Truthy(result, "isWeak") THEN "bg-orange-500"
  ELSE "bg-green-500"

getPasswordStrengthText(result) ==
  IF result = NullResult THEN "Enter a password"
  ELSE IF Truthy(result, "isBreached") THEN "Breached - Choose a different password"
  ELSE IF Truthy(result, "isWeak") THEN "Weak - Please strengthen your password"
  ELSE "Strong password"

\* The client after its fetch has settled.
Settled(outcome) ==
  LET end == checkPassword(outcome)
  IN  [pc |-> end.pc, password |-> client.password, outcome |-> outcome,
       result |-> end.result, logged |-> end.logged]

\* The page calls checkPassword(password): the fetch is on its way.
CheckPassword(password) ==
  /\ client.pc = "idle"
  /\ pc = "idle"
  /\ client' = [pc |-> "sent", password |-> password]
  /\ UNCHANGED <<serverVars, prev, parked, scrape>>

\* The fetch of the client fails: the request does not reach the service,
\* or its response does not reach the client.
TransportFails ==
  /\ client.pc \in {"sent", "waiting"}
  /\ client' = Settled(FetchFailed)
  /\ UNCHANGED <<serverVars, prev, parked, scrape>>

\* The request of the client reaches the service.
Deliver ==
  /\ client.pc = "sent"
  /\ Receive(ClientRequest(client.password))
  /\ client' = [client EXCEPT !.pc = "waiting"]
  /\ UNCHANGED <<parked, scrape>>

\* The response of the service reaches the client.
ClientReceives ==
  /\ client.pc = "waiting"
  /\ pc = "done"
  /\ client' = Settled(FetchSettled(resp))
  /\ UNCHANGED <<serverVars, prev, parked, scrape>>

\* The call is over on both sides; the page may call again.
ClientNext ==
  /\ client.pc \in {"resolved", "rejected"}
  /\ pc \in {"idle", "done"}
  /\ client' = ClientIdle
  /\ IF pc = "done" THEN Reset ELSE UNCHANGED serverVars
  /\ UNCHANGED <<prev, parked, scrape>>

Call == \E password \in { <<>>, PwPassword, PwTwelve, PwSummer } : CheckPassword(password)

NextClient ==
  \/ Call
  \/ TransportFails
  \/ Deliver
  \/ Fail
  \/ AnswerOneLine
  \/ ClientReceives
  \/ ClientNext

SpecClient == Init /\ [][NextClient]_vars

(***************************************************************************)
(* Several requests in flight.  The runtime runs one handler at a time and *)
(* switches between them where a handler awaits; the switch modelled is    *)
(* the one at await fetch (index.ts line 87).  A suspended evaluation      *)
(* keeps its locals in its own closure: parked holds them, and the         *)
(* variables of the evaluation that runs are the locals of that one.       *)
(***************************************************************************)

\* How many evaluations can be suspended at once.
MaxParked == 1

\* The locals of the evaluation that is running; overtaken notes whether
\* another evaluation has finished while this one was suspended.
Locals ==
  [req |-> req, strengthIssues |-> strengthIssues, prefix |-> prefix,
   suffix |-> suffix, outbound |-> outbound, log |-> log,
   overtaken |-> IF prev.kind = "resumed" THEN prev.overtaken ELSE FALSE]

\* The evaluation awaiting its fetch is set aside and the runtime is free
\* to dispatch another request.
Suspend ==
  /\ pc = "fetching"
  /\ Len(parked) < MaxParked
  /\ parked' = Append(parked, Locals)
  /\ pc' = "idle"
  /\ req' = NoRequest
  /\ strengthIssues' = <<>>
  /\ prefix' = <<>>
  /\ suffix' = <<>>
  /\ outbound' = <<>>
  /\ log' = <<>>
  /\ prev' = NoPrev
  /\ UNCHANGED <<remote, resp, client, scrape>>

\* Resume with the hash suffix kept in a variable all evaluations share
\* instead of in the closure of each.
ResumeSharedSuffix(i) ==
  /\ pc = "idle"
  /\ i \in 1..Len(parked)
  /\ pc' = "fetching"
  /\ req' = parked[i].req
  /\ strengthIssues' = parked[i].strengthIssues
  /\ prefix' = parked[i].prefix
  /\ suffix' = suffix
  /\ outbound' = parked[i].outbound
  /\ log' = parked[i].log
  /\ parked' = SubSeq(parked, 1, i - 1) \o SubSeq(parked, i + 1, Len(parked))
  /\ prev' = [kind |-> "resumed", overtaken |-> parked[i].overtaken]
  /\ UNCHANGED <<remote, resp, client, scrape>>

\* The i-th suspended evaluation is the one whose fetch settles next: it
\* runs again with the locals it was suspended with.
Resume(i) ==
  /\ pc = "idle"
  /\ i \in 1..Len(parked)
  /\ pc' = "fetching"
  /\ req' = parked[i].req
  /\ strengthIssues' = parked[i].strengthIssues
  /\ prefix' = parked[i].prefix
  /\ suffix' = parked[i].suffix
  /\ outbound' = parked[i].outbound
  /\ log' = parked[i].log
  /\ parked' = SubSeq(parked, 1, i - 1) \o SubSeq(parked, i + 1, Len(parked))
  /\ prev' = [kind |-> "resumed", overtaken |-> parked[i].overtaken]
  /\ UNCHANGED <<remote, resp, client, scrape>>

\* The evaluation that ran is over; the suspended ones have been overtaken.
NextRequestConc ==
  /\ Reset
  /\ prev' = NoPrev
  /\ parked' = [i \in 1..Len(parked) |-> [parked[i] EXCEPT !.overtaken = TRUE]]
  /\ UNCHANGED <<client, scrape>>

ConcRequests ==
  { r \in Requests : \/ r.body.kind = "invalid"
                     \/ /\ r.body.kind = "object"
                        /\ \/ r.body.password = JsUndefined
                           \/ /\ r.body.password[1] = "string"
                              /\ r.body.password[2] \in { PwPassword, PwSummer, PwSpring } }

\* One-line answers of the corpus to the range of "Summer!2027!ok" and
\* "Spring-2010-ok", whose digests share their first five characters.
SummerSuffix == <<"2", "0", "0", "2", "8", "2", "B", "8", "7", "9", "E", "7", "1", "C", "B", "0", "3", "5", "7", "7", "4", "E", "4", "3", "C", "7", "8", "7", "0", "A", "2", "A", "6", "D", "8">>
SpringSuffix == <<"E", "E", "0", "A", "D", "E", "A", "8", "0", "B", "C", "C", "B", "4", "1", "5", "B", "B", "7", "5", "B", "2", "4", "3", "2", "7", "3", "C", "C", "A", "2", "B", "7", "3", "E">>

ConcLines ==
  { SummerSuffix \o Colon \o <<"5">>,
    SpringSuffix \o Colon \o <<"7">>,
    OtherSuffix \o Colon \o <<"2">>,
    SummerSuffix,
    SpringSuffix }

ArriveConc ==
  /\ pc = "idle"
  /\ \E r \in ConcRequests : Receive(r)
  /\ UNCHANGED <<client, parked, scrape>>

AnswerConc ==
  /\ pc = "fetching"
  /\ \E status \in TwiceStatuses : \E text \in ConcLines : FetchResponds(status, text)
  /\ UNCHANGED <<client, parked, scrape>>

Wake == pc = "idle" /\ \E i \in 1..Len(parked) : Resume(i)

NextConc ==
  \/ ArriveConc
  \/ Suspend
  \/ Wake
  \/ Fail
  \/ AnswerConc
  \/ NextRequestConc

SpecConc == Init /\ [][NextConc]_vars

(***************************************************************************)
(* The scrape pipeline handler (the second Deno.serve handler of the       *)
(* repository) and the scrapes table it writes.  scrape.table is the       *)
(* table, a record's id its index; the other fields are the locals of the  *)
(* request being handled.  The calls of the Supabase client do not throw:  *)
(* they resolve to { data, error }, as the handler's own reading of        *)
(* insertError shows.                                                      *)
(***************************************************************************)

\* Most records the table is let grow to.
MaxScrapes == 2

scrapeCorsHeaders ==
  { <<"Access-Control-Allow-Origin", "*">>,
    <<"Access-Control-Allow-Methods", "GET, POST, PUT, DELETE, OPTIONS">>,
    <<"Access-Control-Allow-Headers", "Content-Type, Authorization, X-Client-Info, Apikey">> }

ScrapeResponse(status, json) ==
  [status |-> status,
   headers |-> scrapeCorsHeaders \cup { <<"Content-Type", "application/json">> },
   body |-> json]

\* The request bodies: text that is not JSON, or an object whose url is
\* absent, text that new URL() rejects, or a URL with its protocol, and whose
\* keyword is absent or text.
ScrapeBodies ==
  { [kind |-> "invalid"] }
  \cup { [kind |-> "object", url |-> u, keyword |-> k] :
           u \in { [kind |-> "absent"], [kind |-> "text"],
                   [kind |-> "url", protocol |-> "https:"],
                   [kind |-> "url", protocol |-> "http:"],
                   [kind |-> "url", protocol |-> "ftp:"] },
           k \in { [kind |-> "absent"], [kind |-> "text"] } }

\* new URL(url) succeeds and the protocol is http: or https:.
ValidUrl(url) == url.kind = "url" /\ url.protocol \in {"http:", "https:"}

\* The handler returns: the locals are gone, the table stays.
ScrapeReturn(response) ==
  scrape' = [pc |-> "done", table |-> scrape.table, resp |-> response]

\* The handler from the arrival of a request to its return or to the insert
\* of the scrape record; env tells whether FIRECRAWL_API_KEY and
\* OPENAI_API_KEY are set.
ScrapeReceive ==
  /\ scrape.pc = "idle"
  /\ Len(scrape.table) < MaxScrapes
  /\ \E method \in {"POST", "OPTIONS"} : \E body \in ScrapeBodies :
       \E env \in [firecrawl : BOOLEAN, openai : BOOLEAN] :
         IF method = "OPTIONS"
         THEN ScrapeReturn([status |-> 200, headers |-> scrapeCorsHeaders, body |-> NoBody])
         ELSE IF body.kind = "invalid"
         THEN ScrapeReturn(ScrapeResponse(500, [error |-> "Unexpected token in JSON"]))
         ELSE IF body.url.kind = "absent" \/ body.keyword.kind = "absent"
         THEN ScrapeReturn(ScrapeResponse(400, [error |-> "URL and keyword are required"]))
         ELSE IF ~env.firecrawl \/ ~env.openai
         THEN ScrapeReturn(ScrapeResponse(500,
                [error |-> "API keys not configured. Please set FIRECRAWL_API_KEY and OPENAI_API_KEY."]))
         ELSE IF ~ValidUrl(body.url)
         THEN ScrapeReturn(ScrapeResponse(400, [error |-> "Invalid URL format"]))
         ELSE scrape' = [pc |-> "inserting", table |-> scrape.table, body |-> body]
  /\ UNCHANGED <<serverVars, prev, client, parked>>

\* The insert of the record settles: with the new record, whose status is
\* 'pending', or with an error and no record.
InsertSettles ==
  /\ scrape.pc = "inserting"
  /\ \E ok \in BOOLEAN :
       IF ok
       THEN scrape' = [pc |-> "scraping", stage |-> "firecrawl",
                       table |-> Append(scrape.table,
                                   [url |-> scrape.body.url, keyword |-> scrape.body.keyword,
                                    status |-> "pending"]),
                       scrapeRecord |-> Len(scrape.table) + 1]
       ELSE ScrapeReturn(ScrapeResponse(500, [error |-> "Failed to create scrape record"]))
  /\ UNCHANGED <<serverVars, prev, client, parked>>

\* The stages of the pipeline between the insert and the update, and what
\* the awaited call of each stage can come to.
NextStage(stage) ==
  CASE stage = "firecrawl" -> "summary"
    [] stage = "summary" -> "origin"
    [] stage = "origin" -> "trends"
    [] stage = "trends" -> "references"
    [] stage = "references" -> "update"

StageOutcomes(stage) ==
  CASE stage = "firecrawl" -> {"ok", "not ok", "no content", "rejected"}
    [] stage \in {"summary", "origin", "trends"} -> {"ok", "not ok", "rejected"}
    [] stage = "references" -> {"ok"}

\* scrapeError.message
StageError(stage, outcome) ==
  IF outcome = "rejected" THEN "error sending request"
  ELSE IF outcome = "no content" THEN "No content extracted from website"
  ELSE IF stage = "firecrawl" THEN "Firecrawl API error"
  ELSE "OpenAI API error"

\* A stage of the pipeline settles: the next stage starts, the update to
\* 'completed' is issued after the last, or the error thrown is caught and
\* the update to 'failed' is issued.
StageSettles ==
  /\ scrape.pc = "scraping"
  /\ \E outcome \in StageOutcomes(scrape.stage) :
       IF outcome # "ok"
       THEN scrape' = [pc |-> "failing", table |-> scrape.table,
                       scrapeRecord |-> scrape.scrapeRecord,
                       scrapeError |-> StageError(scrape.stage, outcome)]
       ELSE IF NextStage(scrape.stage) = "update"
       THEN scrape' = [pc |-> "completing", table |-> scrape.table,
                       scrapeRecord |-> scrape.scrapeRecord]
       ELSE scrape' = [scrape EXCEPT !.stage = NextStage(scrape.stage)]
  /\ UNCHANGED <<serverVars, prev, client, parked>>

\* The table after update({ status }).eq('id', id): changed when the update
\* is applied, as it was when the update comes back with an error.
Updated(table, id, status, applied) ==
  IF applied THEN [table EXCEPT ![id].status = status] ELSE table

\* The update to 'completed' settles; its result is not read and the
\* handler answers success: true.
CompletedSettles ==
  /\ scrape.pc = "completing"
  /\ \E applied \in BOOLEAN :
       scrape' = [pc |-> "done",
                  table |-> Updated(scrape.table, scrape.scrapeRecord, "completed", applied),
                  resp |-> ScrapeResponse(200, [success |-> TRUE,
                                                scrapeId |-> scrape.scrapeRecord,
                                                title |-> "Untitled"])]
  /\ UNCHANGED <<serverVars, prev, client, parked>>

\* The update to 'failed' settles; its result is not read and the handler
\* answers success: false with the id of the record.
FailedSettles ==
  /\ scrape.pc = "failing"
  /\ \E applied \in BOOLEAN :
       scrape' = [pc |-> "done",
                  table |-> Updated(scrape.table, scrape.scrapeRecord, "failed", applied),
                  resp |-> ScrapeResponse(200, [success |-> FALSE,
                                                error |-> scrape.scrapeError,
                                                scrapeId |-> scrape.scrapeRecord])]
  /\ UNCHANGED <<serverVars, prev, client, parked>>

NextScrapeRequest ==
  /\ scrape.pc = "done"
  /\ scrape' = [pc |-> "idle", table |-> scrape.table]
  /\ UNCHANGED <<serverVars, prev, client, parked>>

NextScrape ==
  \/ ScrapeReceive
  \/ InsertSettles
  \/ StageSettles
  \/ CompletedSettles
  \/ FailedSettles
  \/ NextScrapeRequest

SpecScrape == Init /\ [][NextScrape]_vars

(***************************************************************************)
(* Vocabulary of the properties.                                           *)
(***************************************************************************)

\* The request carries a password string, and it is not a preflight.
PasswordGiven ==
  /\ pc # "idle"
  /\ req.method # "OPTIONS"
  /\ req.body.kind = "object"
  /\ req.body.password[1] = "string"

ThePassword == req.body.password[2]

Responded == pc = "done"

HasField(f) == f \in DOMAIN resp.body

UpperLetters ==
  {"A", "B", "C", "D", "E", "F", "G", "H", "I", "J", "K", "L", "M",
   "N", "O", "P", "Q", "R", "S", "T", "U", "V", "W", "X", "Y", "Z"}

LowerLetters ==
  {"a", "b", "c", "d", "e", "f", "g", "h", "i", "j", "k", "l", "m",
   "n", "o", "p", "q", "r", "s", "t", "u", "v", "w", "x", "y", "z"}

DecimalChars == {"0", "1", "2", "3", "4", "5", "6", "7", "8", "9"}

\* The password string p satisfies every rule of the local policy, stated
\* on the characters themselves.
Compliant(p) ==
  LET chars   == {p[i] : i \in 1..Len(p)}
      lowered == ToLowerCase(p)
  IN  /\ Len(p) >= 12
      /\ chars \cap UpperLetters # {}
      /\ chars \cap LowerLetters # {}
      /\ chars \cap DecimalChars # {}
      /\ chars \ (UpperLetters \cup LowerLetters \cup DecimalChars) # {}
      /\ \A i \in 1..Len(commonPasswords) : commonPasswords[i] # lowered

\* The response is the degraded result: 200, apiError, neither flag set.
IsDegradedResult ==
  /\ resp.status = 200
  /\ HasField("apiError") /\ resp.body.apiError = TRUE
  /\ HasField("isBreached") /\ resp.body.isBreached = FALSE
  /\ HasField("isWeak") /\ resp.body.isWeak = FALSE

\* The response is the weak result carrying the given issues.
IsWeakResult(issues) ==
  /\ resp.status = 200
  /\ resp.body = [isBreached |-> FALSE, isWeak |-> TRUE, issues |-> issues]

\* The response is the clean result.
IsCleanResult ==
  /\ resp.status = 200
  /\ resp.body = [isBreached |-> FALSE, isWeak |-> FALSE, message |-> "Password is secure"]

\* The response is the breached result with the given count.
IsBreachedResult(n) ==
  /\ resp.status = 200
  /\ HasField("isBreached") /\ resp.body.isBreached = TRUE
  /\ HasField("isWeak") /\ resp.body.isWeak = FALSE
  /\ HasField("breachCount") /\ resp.body.breachCount = <<"number", n>>

\* The remote answered with a response of success status.
RemoteSucceeded == remote.kind = "response" /\ remote.status \in 200..299

\* The lines of the remote text, a carriage return at a line's end dropped.
RemoteLines ==
  LET raw == Split(remote.text, "\n")
  IN  [i \in 1..Len(raw) |->
         IF raw[i] # <<>> /\ raw[i][Len(raw[i])] = "\r"
         THEN SubSeq(raw[i], 1, Len(raw[i]) - 1) ELSE raw[i]]

HexChars == {"0", "1", "2", "3", "4", "5", "6", "7", "8", "9", "A", "B", "C", "D", "E", "F",
             "a", "b", "c", "d", "e", "f"}

\* The line is a record SUFFIX:COUNT, hexadecimal digits, a colon, digits.
IsRecord(line) ==
  \E k \in 2..(Len(line) - 1) :
     /\ line[k] = ":"
     /\ \A j \in 1..(k - 1) : line[j] \in HexChars
     /\ \A j \in (k + 1)..Len(line) : line[j] \in DecimalChars

RecordSuffix(line) == SubSeq(line, 1, (CHOOSE k \in 1..Len(line) : line[k] = ":") - 1)

RECURSIVE DecimalValue(_)
DecimalValue(digits) ==
  IF digits = <<>> THEN 0
  ELSE 10 * DecimalValue(SubSeq(digits, 1, Len(digits) - 1))
       + (CHOOSE d \in 0..9 : Ascii[17 + d] = digits[Len(digits)])

RecordCount(line) ==
  DecimalValue(SubSeq(line, (CHOOSE k \in 1..Len(line) : line[k] = ":") + 1, Len(line)))

\* The remote text is a set of records, one per line (possibly none).
WellFormedRemote ==
  remote.text = <<>> \/ \A i \in 1..Len(RemoteLines) : IsRecord(RemoteLines[i])

\* needle occurs in hay.
Contains(hay, needle) ==
  \E i \in 1..(Len(hay) - Len(needle) + 1) : SubSeq(hay, i, i + Len(needle) - 1) = needle

(***************************************************************************)
(* Properties.                                                             *)
(***************************************************************************)

\* C1: for a password that passes the local policy, when the outbound
\* request fails at the network level the service answers 200 with
\* apiError=true, isBreached=false, isWeak=false, never 500.
C1_NetworkFailureDegrades ==
  (Responded /\ PasswordGiven /\ strengthIssues = <<>> /\ remote.kind = "rejected")
    => IsDegradedResult

\* C2: for a password that passes the local policy, a remote response of
\* non-success status gives 200 with apiError=true, isBreached=false,
\* isWeak=false and an advisory message, whatever the remote body holds.
C2_NonSuccessStatusDegrades ==
  (Responded /\ remote.kind = "response" /\ remote.status \notin 200..299)
    => /\ IsDegradedResult
       /\ HasField("message")
       /\ resp.body.message = "Unable to check password breach status, but password meets strength requirements"
       /\ ~HasField("breachCount")

\* A failed lookup whose body holds a record for the very suffix asked about.
C2_Witness ==
  /\ Responded
  /\ remote.kind = "response"
  /\ remote.status = 503
  /\ Contains(remote.text, suffix \o <<":", "3", "7", "3", "0", "4", "7", "1">>)
  /\ IsDegradedResult

\* C3: whenever the policy evaluator has produced an issue, the evaluation
\* has answered with the weak result carrying the issues and has sent no
\* outbound request.
C3_WeakShortCircuits ==
  (pc # "idle" /\ strengthIssues # <<>>)
    => /\ outbound = <<>>
       /\ remote = NoRemote
       /\ Responded
       /\ IsWeakResult(strengthIssues)

\* A password whose only fault is its length has been answered as weak.
C3_Witness ==
  /\ Responded
  /\ PasswordGiven
  /\ ThePassword = PwElevenAllClasses
  /\ strengthIssues = <<"Password must be at least 12 characters long">>
  /\ outbound = <<>>

\* C4: every password shorter than 12 characters, the empty string
\* included, gets a result with isWeak=true whose issues hold the
\* minimum-length complaint.
C4_ShortPasswordIsWeak ==
  (Responded /\ PasswordGiven /\ Len(ThePassword) < 12)
    => /\ resp.status = 200
       /\ HasField("isWeak") /\ resp.body.isWeak = TRUE
       /\ HasField("issues")
       /\ \E i \in 1..Len(resp.body.issues) :
             resp.body.issues[i] = "Password must be at least 12 characters long"

\* C5: a password of length >= 12 with an upper-case letter, a lower-case
\* letter, a digit and a special character, not on the deny-list, gets zero
\* issues and the handler sends the breach-corpus request; the result is
\* not the weak one.
C5_CompliantReachesLookup ==
  (PasswordGiven /\ Compliant(ThePassword))
    => /\ strengthIssues = <<>>
       /\ Len(outbound) = 1
       /\ pc = "fetching" \/ remote # NoRemote
       /\ Responded /\ HasField("isWeak") => resp.body.isWeak = FALSE

\* A password of exactly 12 characters is waiting for the corpus.
C5_Witness ==
  /\ pc = "fetching"
  /\ PasswordGiven
  /\ ThePassword = PwTwelve
  /\ Compliant(ThePassword)
  /\ Len(outbound) = 1

\* SHA-1 test vectors (upper-case hexadecimal).
DigestOfPwTwelve ==
  <<"C", "6", "4", "3", "2", "4", "6", "D", "B", "7", "5", "8", "5", "3", "7", "9", "6", "6", "3", "4", "F", "3", "A", "C", "B", "9", "C", "5", "2", "1", "8", "3", "9", "8", "F", "3", "4", "D", "9", "8">>

PrefixOfSummerAndSpring == <<"D", "D", "6", "A", "0">>

RangeUrl == <<"h", "t", "t", "p", "s", ":", "/", "/", "a", "p", "i", ".", "p", "w", "n", "e", "d", "p", "a", "s", "s", "w", "o", "r", "d", "s", ".", "c", "o", "m", "/", "r", "a", "n", "g", "e", "/">>

\* C6: what leaves the process is a GET of the range URL for the
\* 5-character digest prefix with the Add-Padding header and nothing else:
\* neither the plaintext nor the digest suffix is in it, and two passwords
\* whose digests share the prefix send identical outbound requests.
C6_OnlyPrefixLeaves ==
  /\ \A i \in 1..Len(outbound) :
        /\ outbound[i].method = "GET"
        /\ outbound[i].body = [kind |-> "none"]
        /\ outbound[i].headers = { <<"Add-Padding", "true">> }
        /\ Len(outbound[i].url) = Len(RangeUrl) + 5
        /\ SubSeq(outbound[i].url, 1, Len(RangeUrl)) = RangeUrl
        /\ SubSeq(outbound[i].url, Len(RangeUrl) + 1, Len(outbound[i].url)) = prefix
        /\ ~Contains(outbound[i].url, ThePassword)
        /\ ~Contains(outbound[i].url, suffix)
  /\ (outbound # <<>> /\ ThePassword \in {PwSummer, PwSpring})
        => prefix = PrefixOfSummerAndSpring
  /\ (outbound # <<>> /\ ThePassword = PwTwelve)
        => prefix \o suffix = DigestOfPwTwelve
  /\ (outbound # <<>> /\ prev.kind = "lookup" /\ prev.prefix = prefix)
        => prev.outbound = outbound

\* Two different passwords with the same digest prefix, one evaluated after
\* the other, both having reached the breach lookup.
C6_Witness ==
  /\ outbound # <<>>
  /\ prev.kind = "lookup"
  /\ prev.password # ThePassword
  /\ prev.prefix = prefix
  /\ prev.outbound = outbound

\* C7: no response has both isWeak and isBreached true, and breachCount is
\* present only in responses whose isWeak is false.
C7_FailureModesExclusive ==
  Responded
    => /\ (HasField("isWeak") /\ HasField("isBreached"))
             => ~(resp.body.isWeak = TRUE /\ resp.body.isBreached = TRUE)
       /\ HasField("breachCount")
             => (HasField("isWeak") /\ resp.body.isWeak = FALSE)

\* A breached response, with its count.
C7_Witness ==
  /\ Responded
  /\ HasField("breachCount")
  /\ resp.body.isBreached = TRUE
  /\ resp.body.breachCount = <<"number", 3730471>>

\* C8: for a compliant password and a successful remote response made of
\* SUFFIX:COUNT records, the result is breached exactly when some record's
\* suffix field equals, character for character, the digest from position 5
\* on, and then breachCount is that record's count; otherwise the result is
\* clean with the message "Password is secure".
C8_ExactSuffixMatch ==
  (Responded /\ RemoteSucceeded /\ WellFormedRemote)
    => /\ Len(prefix) = 5 /\ Len(suffix) = 35
       /\ ThePassword = PwTwelve => suffix = SubSeq(DigestOfPwTwelve, 6, 40)
       /\ IF remote.text # <<>>
             /\ \E i \in 1..Len(RemoteLines) : RecordSuffix(RemoteLines[i]) = suffix
          THEN \E i \in 1..Len(RemoteLines) :
                  /\ RecordSuffix(RemoteLines[i]) = suffix
                  /\ IsBreachedResult(RecordCount(RemoteLines[i]))
          ELSE IsCleanResult

\* The remote text holds the suffix in lower case and then in its exact
\* form: the lower-case record is passed over, the exact one matches.
C8_Witness ==
  /\ Responded
  /\ RemoteSucceeded
  /\ WellFormedRemote
  /\ Len(RemoteLines) = 2
  /\ RemoteLines[1] = ToLowerCase(suffix) \o <<":", "5">>
  /\ RecordSuffix(RemoteLines[2]) = suffix
  /\ IsBreachedResult(3730471)

\* C9 as stated: the password "password" is looked up in the corpus; a
\* remote text holding the record of its suffix with count 3730471 gives
\* the breached result with that count, one holding only a different
\* suffix gives the clean result.
C9_PasswordIsLookedUp ==
  (Responded /\ PasswordGiven /\ ThePassword = PwPassword)
    => /\ RemoteSucceeded
       /\ IF Contains(remote.text, suffix \o <<":", "3", "7", "3", "0", "4", "7", "1">>)
          THEN IsBreachedResult(3730471)
          ELSE IsCleanResult

\* C9 (amended): the password "password" fails the local policy, so it
\* gets the weak result with its five issues and no request is sent to the
\* corpus; for the compliant password "Tr0ub4dor&3x" a successful remote
\* text whose first line is the record of its suffix with count 3730471
\* gives the breached result with that count, and one holding only the
\* record of a different suffix gives the clean result.
C9_PasswordIsWeakVectorHolds ==
  /\ (Responded /\ PasswordGiven /\ ThePassword = PwPassword)
        => /\ IsWeakResult(<< "Password must be at least 12 characters long",
                               "Password must contain at least one uppercase letter",
                               "Password must contain at least one number",
                               "Password must contain at least one special character",
                               "This password is too common and easily guessed" >>)
           /\ outbound = <<>>
           /\ remote = NoRemote
  /\ (Responded /\ PasswordGiven /\ ThePassword = PwTwelve /\ RemoteSucceeded)
        => /\ (RemoteLines[1] = SubSeq(DigestOfPwTwelve, 6, 40) \o <<":", "3", "7", "3", "0", "4", "7", "1">>)
                 => IsBreachedResult(3730471)
           /\ (\A i \in 1..Len(RemoteLines) : RemoteLines[i] = OtherSuffix \o <<":", "2">>)
                 => IsCleanResult

\* "password" has been answered as weak.
C9_Witness ==
  /\ Responded
  /\ PasswordGiven
  /\ ThePassword = PwPassword
  /\ resp.body.isWeak = TRUE
  /\ Len(resp.body.issues) = 5

\* C10: an evaluation that has reached the breach lookup has sent exactly
\* one outbound request, also after a failure or a non-success status; an
\* evaluation that has not has sent none.
C10_ExactlyOneOutbound ==
  /\ Len(outbound) <= 1
  /\ (pc = "fetching" \/ remote # NoRemote) => Len(outbound) = 1
  /\ (PasswordGiven /\ ThePassword # <<>> /\ strengthIssues = <<>>) => Len(outbound) = 1

\* The outbound call has failed and the evaluation is over, one request sent.
C10_Witness ==
  /\ Responded
  /\ remote.kind = "rejected"
  /\ Len(outbound) = 1

\* The decoded body is an object whose password is absent or not a string.
PasswordMissing ==
  /\ pc # "idle"
  /\ req.method # "OPTIONS"
  /\ req.body.kind = "object"
  /\ req.body.password[1] # "string"

\* C11: a request other than OPTIONS whose JSON object has no password, or
\* a password that is not a string, is answered 400 with exactly
\* {"error": "Password is required"}; no rule of the policy has been
\* evaluated and nothing has been sent to the breach corpus.
C11_MissingPasswordIs400 ==
  (Responded /\ PasswordMissing)
    => /\ resp.status = 400
       /\ resp.body = [error |-> "Password is required"]
       /\ strengthIssues = <<>>
       /\ outbound = <<>>
       /\ remote = NoRemote

\* A request whose password is the number 7 has been answered.
C11_Witness ==
  /\ Responded
  /\ PasswordMissing
  /\ req.body.password = JsNumber(7)
  /\ resp.status = 400

\* The issues of the response name the common-password rule.
ReportsCommon ==
  /\ resp.status = 200
  /\ HasField("issues")
  /\ \E i \in 1..Len(resp.body.issues) :
       resp.body.issues[i] = "This password is too common and easily guessed"

\* C12: membership in the deny-list does not depend on letter case: a
\* password whose lower-cased form is an entry of the list is reported weak
\* with the common-password issue, "Password" against the entry "password"
\* among them.
C12_DenyListIgnoresCase ==
  (Responded /\ PasswordGiven)
    => LET lowered == ToLowerCase(ThePassword)
       IN  (\E i \in 1..Len(commonPasswords) : commonPasswords[i] = lowered)
             => /\ resp.body.isWeak = TRUE
                /\ ReportsCommon

\* "Password", which differs from the entry "password" in case only, has
\* been reported with the common-password issue.
C12_Witness ==
  /\ Responded
  /\ PasswordGiven
  /\ ThePassword = PwPasswordCap
  /\ ReportsCommon

\* C13: "Password123!", which is long enough and holds a character of every
\* class, is rejected by the deny-list: it is reported weak with the
\* common-password issue.
C13_Password123BangIsCommon ==
  (Responded /\ PasswordGiven /\ ThePassword = PwPassword123Bang)
    => /\ resp.status = 200
       /\ resp.body.isWeak = TRUE
       /\ ReportsCommon

\* C17: every assessment answered with status 200, be it weak, breached,
\* clean or degraded, carries the message field.
C17_AssessmentHasMessage ==
  (Responded /\ resp.status = 200 /\ HasField("isWeak")) => HasField("message")

\* C18: an OPTIONS request is answered 200 with no body and the CORS
\* headers whatever it carries: its body has not been parsed, no rule
\* evaluated, nothing sent to the breach corpus and nothing logged.
C18_PreflightAlways200 ==
  (pc # "idle" /\ req.method = "OPTIONS")
    => /\ Responded
       /\ resp.status = 200
       /\ resp.body = NoBody
       /\ resp.headers =
            { <<"Access-Control-Allow-Origin", "*">>,
              <<"Access-Control-Allow-Methods", "POST, OPTIONS">>,
              <<"Access-Control-Allow-Headers", "Content-Type, Authorization, X-Client-Info, Apikey">> }
       /\ strengthIssues = <<>>
       /\ outbound = <<>>
       /\ remote = NoRemote
       /\ log = <<>>

\* An OPTIONS request whose body is not JSON has been answered 200.
C18_Witness ==
  /\ Responded
  /\ req.method = "OPTIONS"
  /\ req.body.kind = "invalid"
  /\ resp.status = 200

\* An exception has been caught: the catch block has logged it.
Caught ==
  \E i \in 1..Len(log) : log[i][1] = "Error checking password:"

\* C19: an exception raised while handling the request, an invalid JSON
\* body among them, is answered 500 with {"error": "Internal server error",
\* "details": <string>}, and nothing is sent to the breach corpus after it:
\* none at all when the body did not parse, and no more than the one
\* request whose failure was the exception otherwise.
C19_ExceptionIs500 ==
  /\ ((Responded /\ Caught) \/ (Responded /\ resp.status = 500)
        \/ (pc # "idle" /\ req.method # "OPTIONS" /\ req.body.kind = "invalid"))
       => /\ Responded
          /\ resp.status = 500
          /\ DOMAIN resp.body = {"error", "details"}
          /\ resp.body.error = "Internal server error"
          /\ DOMAIN resp.body.details = {"text", "excerpt"}
          /\ resp.body.details.text \in
                {"Unexpected end of JSON input", "Unexpected token, is not valid JSON",
                 "error sending request",
                 "Cannot read properties of undefined (reading 'trim')"}
          /\ Len(outbound) = (IF remote = NoRemote THEN 0 ELSE 1)
  /\ (pc # "idle" /\ req.method # "OPTIONS" /\ req.body.kind = "invalid")
       => /\ outbound = <<>>
          /\ remote = NoRemote

\* A request whose body is not JSON has been answered 500.
C19_Witness ==
  /\ Responded
  /\ req.method = "POST"
  /\ req.body.kind = "invalid"
  /\ resp.status = 500
  /\ resp.body.details.text = "Unexpected token, is not valid JSON"

\* The evaluation that is over and the one before it were of the same
\* request against the same answer of the stubbed corpus.
SameEvaluationTwice ==
  /\ Responded
  /\ prev.kind = "evaluation"
  /\ prev.req.body = req.body
  /\ (prev.req.method = "OPTIONS") <=> (req.method = "OPTIONS")
  /\ prev.remote = remote

\* C14: evaluating the same password twice against the same answer of the
\* stubbed corpus gives the same status and the same body: the outcome does
\* not depend on the evaluation that came before.
C14_SameInputSameResult ==
  SameEvaluationTwice
    => /\ resp.status = prev.resp.status
       /\ resp.body = prev.resp.body
       /\ resp = prev.resp

\* A password that reached the lookup has been evaluated twice in a row and
\* has got the same record of its suffix from the corpus both times.
C14_Witness ==
  /\ SameEvaluationTwice
  /\ PasswordGiven
  /\ ThePassword = PwTwelve
  /\ RemoteSucceeded
  /\ resp.status = 200
  /\ HasField("breachCount")

\* C15: checkPassword never rejects.  When its fetch fails, or the service
\* answers with a status outside 200..299, it resolves to a result with
\* apiError true, isBreached and isWeak false and a message; when the
\* service answers with a success status it resolves to the JSON the service
\* sent, unchanged.
C15_CheckPasswordNeverThrows ==
  /\ client.pc \in {"idle", "sent", "waiting", "resolved"}
  /\ client.pc = "resolved"
       => /\ client.outcome.kind = "response"
               => /\ pc = "done"
                  /\ client.outcome.status = resp.status
          /\ IF client.outcome.kind = "rejected" \/ client.outcome.status \notin 200..299
             THEN /\ DOMAIN client.result = {"isBreached", "isWeak", "message", "apiError"}
                  /\ client.result.apiError = TRUE
                  /\ client.result.isBreached = FALSE
                  /\ client.result.isWeak = FALSE
                  /\ client.result.message = "Unable to verify password security"
             ELSE client.result = resp.body

\* The service has answered 400 to the client and checkPassword has
\* resolved to the failure result.
C15_Witness ==
  /\ client.pc = "resolved"
  /\ client.outcome.kind = "response"
  /\ client.outcome.status = 400
  /\ client.result.apiError = TRUE

\* The results with apiError true there are: the one the service has
\* answered with and the one checkPassword has resolved to.
ApiErrorResults ==
  (IF pc = "done" /\ resp.status = 200 /\ Truthy(resp.body, "apiError")
   THEN {resp.body} ELSE {})
  \cup (IF client.pc = "resolved" /\ Truthy(client.result, "apiError")
        THEN {client.result} ELSE {})

\* C16: a result with apiError true, from the service or made up by
\* checkPassword, has isBreached false and isWeak false and carries a
\* message, and getPasswordStrengthColor and getPasswordStrengthText do not
\* report it as breached or as weak.
C16_ApiErrorIsNotAFailure ==
  \A result \in ApiErrorResults :
    /\ {"isBreached", "isWeak", "message"} \subseteq DOMAIN result
    /\ result.isBreached = FALSE
    /\ result.isWeak = FALSE
    /\ result.message \in {"Unable to verify password security",
                           "Unable to check password breach status, but password meets strength requirements"}
    /\ getPasswordStrengthColor(result) \notin {"bg-red-500", "bg-orange-500"}
    /\ getPasswordStrengthText(result) \notin {"Breached - Choose a different password",
                                               "Weak - Please strengthen your password"}

\* The degraded result of the service has reached the page through
\* checkPassword.
C16_Witness ==
  /\ client.pc = "resolved"
  /\ client.outcome.kind = "response"
  /\ client.outcome.status = 200
  /\ Truthy(client.result, "apiError")
  /\ client.result = resp.body
  /\ getPasswordStrengthColor(client.result) = "bg-green-500"

\* The suffix of the SHA-1 digest of the passwords evaluated concurrently.
KnownSuffix(password) ==
  IF password = PwSummer THEN SummerSuffix
  ELSE IF password = PwSpring THEN SpringSuffix
  ELSE SubSeq(DigestOfPwTwelve, 6, 40)

\* The response to request r when it is handled alone and its outbound
\* call, if it makes one, comes back with rem.
AloneResponse(r, rem) ==
  IF r.method = "OPTIONS" THEN PreflightResponse
  ELSE IF r.body.kind = "invalid" THEN CatchResponse(ErrJson(r.body))
  ELSE IF Falsy(r.body.password) \/ TypeOf(r.body.password) # "string"
  THEN BadRequestResponse
  ELSE IF HasIssues(StrengthIssues(r.body.password[2]))
  THEN WeakResponse(StrengthIssues(r.body.password[2]))
  ELSE IF rem.kind = "rejected" THEN CatchResponse(ErrFetch)
  ELSE IF ~Ok(rem.status) THEN DegradedResponse
  ELSE LET scan == ScanLines(Split(rem.text, "\n"), 1, KnownSuffix(r.body.password[2]))
       IN  IF scan.kind = "throw" THEN CatchResponse(scan.message) ELSE scan.response

\* C20: evaluations in flight together do not interfere.  With requests
\* suspended at the outbound call while others are handled, every response
\* is the one its request gets when handled alone with the same answer of
\* the corpus, and an evaluation resumed from its suspension still holds
\* the prefix and suffix of its own password.
C20_NoInterference ==
  /\ Responded => resp = AloneResponse(req, remote)
  /\ pc = "fetching"
       => /\ suffix = KnownSuffix(ThePassword)
          /\ prefix = PrefixOfSummerAndSpring
          /\ strengthIssues = <<>>
          /\ Len(outbound) = 1
  /\ \A i \in 1..Len(parked) :
       /\ parked[i].suffix = KnownSuffix(parked[i].req.body.password[2])
       /\ Len(parked[i].outbound) = 1

\* The evaluation of "Summer!2027!ok" was suspended at its outbound call,
\* another request was handled to its end meanwhile, and the evaluation has
\* then been answered with the record of its own suffix.
C20_Witness ==
  /\ Responded
  /\ prev.kind = "resumed"
  /\ prev.overtaken
  /\ PasswordGiven
  /\ ThePassword = PwSummer
  /\ RemoteSucceeded
  /\ remote.text = SummerSuffix \o Colon \o <<"5">>
  /\ IsBreachedResult(5)

\* The plaintext the request carries: the password of a decoded body, or
\* the password a caller has put in a body that is not JSON.
Plaintext ==
  IF req.body.kind = "object"
  THEN (IF req.body.password[1] = "string" THEN req.body.password[2] ELSE <<>>)
  ELSE req.body.holds

\* The texts the service writes into its responses and logs by itself.
ServiceTexts ==
  { MsgRequired, MsgDegraded, MsgBreached, MsgSecure, MsgInternal,
    IssueLength, IssueUpper, IssueLower, IssueNumber, IssueSpecial, IssueCommon }

\* Nothing in the body of the response holds the characters of p.
ResponseFreeOf(p) ==
  /\ DOMAIN resp.body \subseteq {"kind", "error", "details", "isBreached", "isWeak",
                                 "issues", "breachCount", "apiError", "message"}
  /\ HasField("error") => resp.body.error \in ServiceTexts
  /\ HasField("message") => resp.body.message \in ServiceTexts
  /\ HasField("issues")
       => \A i \in 1..Len(resp.body.issues) : resp.body.issues[i] \in ServiceTexts
  /\ HasField("details") => ~Contains(resp.body.details.excerpt, p)

\* Nothing console.error has written holds the characters of p.
LogFreeOf(p) ==
  \A i \in 1..Len(log) :
    \/ log[i][1] = "HaveIBeenPwned API error:" /\ log[i][2] \in Nat
    \/ log[i][1] = "Error checking password:" /\ ~Contains(log[i][2].excerpt, p)

\* C21: the plaintext password is not written to a log and not echoed in a
\* response, on any path: the log holds the status of the corpus and caught
\* errors only, and neither these nor the body of any response hold the
\* password a request carried.
C21_PasswordNeverEchoed ==
  (pc # "idle" /\ req.method # "OPTIONS" /\ Plaintext # <<>>)
    => /\ LogFreeOf(Plaintext)
       /\ Responded => ResponseFreeOf(Plaintext)

\* C22: every response of the service, whatever its path and status,
\* carries the three CORS headers: any origin, the methods POST and OPTIONS,
\* and the request headers Content-Type and Authorization (with
\* X-Client-Info and Apikey).
C22_EveryResponseHasCors ==
  Responded
    => /\ resp.status \in {200, 400, 500}
       /\ { <<"Access-Control-Allow-Origin", "*">>,
            <<"Access-Control-Allow-Methods", "POST, OPTIONS">>,
            <<"Access-Control-Allow-Headers", "Content-Type, Authorization, X-Client-Info, Apikey">> }
            \subseteq resp.headers
       /\ \A h \in resp.headers :
            h[1] \in {"Access-Control-Allow-Origin", "Access-Control-Allow-Methods",
                      "Access-Control-Allow-Headers", "Content-Type"}

\* The 500 answer to a failed outbound call carries the headers.
C22_Witness ==
  /\ Responded
  /\ resp.status = 500
  /\ remote.kind = "rejected"
  /\ <<"Access-Control-Allow-Origin", "*">> \in resp.headers

\* The issues the six rules call for, stated on the characters of p: one
\* issue for each rule p violates, in the order of the rules.
IssuesOf(p) ==
  LET chars   == {p[i] : i \in 1..Len(p)}
      lowered == ToLowerCase(p)
  IN  (IF Len(p) < 12
       THEN << "Password must be at least 12 characters long" >> ELSE <<>>)
      \o (IF chars \cap UpperLetters = {}
          THEN << "Password must contain at least one uppercase letter" >> ELSE <<>>)
      \o (IF chars \cap LowerLetters = {}
          THEN << "Password must contain at least one lowercase letter" >> ELSE <<>>)
      \o (IF chars \cap DecimalChars = {}
          THEN << "Password must contain at least one number" >> ELSE <<>>)
      \o (IF chars \ (UpperLetters \cup LowerLetters \cup DecimalChars) = {}
          THEN << "Password must contain at least one special character" >> ELSE <<>>)
      \o (IF \E i \in 1..Len(commonPasswords) : commonPasswords[i] = lowered
          THEN << "This password is too common and easily guessed" >> ELSE <<>>)

\* C23: for a password that is not empty every one of the six rules is
\* evaluated: the issues are those of the rules it violates, each once, in
\* the order length, upper case, lower case, digit, special character,
\* common password, at most six of them; and the answer says isWeak exactly
\* when there is an issue.
C23_AllRulesInOrder ==
  (Responded /\ PasswordGiven /\ ThePassword # <<>>)
    => LET issues == IssuesOf(ThePassword)
       IN  /\ strengthIssues = issues
           /\ Len(issues) <= 6
           /\ issues # <<>> => IsWeakResult(issues)
           /\ issues = <<>> => ~(HasField("isWeak") /\ resp.body.isWeak = TRUE)

\* "12345678910" has been answered with five issues, the deny-list one last.
C23_Witness ==
  /\ Responded
  /\ PasswordGiven
  /\ ThePassword = PwDigits
  /\ Len(resp.body.issues) = 5
  /\ resp.body.issues[5] = "This password is too common and easily guessed"

\* The password has passed the policy and the corpus has answered the
\* lookup with a success status.
LookupAnswered ==
  /\ Responded
  /\ PasswordGiven
  /\ ThePassword # <<>>
  /\ strengthIssues = <<>>
  /\ RemoteSucceeded

\* C24: for a compliant password and a success status of the corpus the
\* service answers 200 with the breached or the clean result whatever the
\* text of the remote body, never 500: an empty body, blank lines, CRLF line
\* ends, a line that is the matching suffix with no colon or no count.
C24_AnyRemoteTextIs200 ==
  LookupAnswered
    => /\ resp.status = 200
       /\ \/ IsCleanResult
          \/ HasField("isBreached") /\ resp.body.isBreached = TRUE

\* C25: a response that says isBreached carries a breachCount that is an
\* integer of at least 1: a record of count 0, which is what the padding
\* asked for with Add-Padding looks like, gives no breached verdict.
C25_BreachCountAtLeastOne ==
  (Responded /\ resp.status = 200 /\ HasField("isBreached") /\ resp.body.isBreached = TRUE)
    => /\ HasField("breachCount")
       /\ resp.body.breachCount[1] = "number"
       /\ resp.body.breachCount[2] >= 1

\* Line i of the remote text is the first whose suffix field is the suffix
\* looked for.
FirstMatch(i) ==
  /\ RecordSuffix(RemoteLines[i]) = suffix
  /\ \A j \in 1..(i - 1) : RecordSuffix(RemoteLines[j]) # suffix

\* C26: when several records of the remote text carry the suffix looked
\* for, the scan stops at the first of them in the order of the text:
\* breachCount is the count of that record and the later ones change
\* nothing.
C26_FirstMatchWins ==
  (LookupAnswered /\ WellFormedRemote /\ remote.text # <<>>)
    => \A i \in 1..Len(RemoteLines) :
         FirstMatch(i) => IsBreachedResult(RecordCount(RemoteLines[i]))

\* The remote text held the suffix twice, with count 0 and then with count
\* 3730471, and the answer carries the count 0.
C26_Witness ==
  /\ LookupAnswered
  /\ WellFormedRemote
  /\ Len(RemoteLines) = 2
  /\ RecordSuffix(RemoteLines[1]) = suffix
  /\ RecordSuffix(RemoteLines[2]) = suffix
  /\ RecordCount(RemoteLines[1]) = 0
  /\ RecordCount(RemoteLines[2]) = 3730471
  /\ IsBreachedResult(0)

\* C27: through the client, a password that violates the local policy, the
\* empty string included, is not classified as strong: when the service has
\* answered the call of checkPassword, getPasswordStrengthText of the result
\* is not "Strong password" and getPasswordStrengthColor is not green.
C27_WeakNeverShownStrong ==
  (client.pc = "resolved" /\ client.outcome.kind = "response"
     /\ IssuesOf(client.password) # <<>>)
    => /\ getPasswordStrengthText(client.result) # "Strong password"
       /\ getPasswordStrengthColor(client.result) # "bg-green-500"

\* C28: a request the service handles gets exactly one response, provided
\* its outbound call settles.  A request is answered on arrival or is
\* suspended in the outbound call with no response yet; a suspended one is
\* answered in the end; and a response, once returned, is not replaced.
C28_EveryRequestAnswered ==
  /\ [](pc = "fetching" => resp = NoResponse)
  /\ [](pc = "done" => resp # NoResponse)
  /\ [][pc = "done" => (pc' = "idle" /\ resp' = NoResponse)]_vars
  /\ (pc = "fetching") ~> (pc = "done")

\* An evaluation that waited for the corpus has been answered.
C28_Witness ==
  /\ Responded
  /\ remote.kind = "response"
  /\ remote.status = 503
  /\ resp.status = 200

\* The evaluation that is over and the one before it had the same body and
\* the same answer of the corpus and came with two different methods,
\* neither of them OPTIONS.
SameBodyOtherMethod ==
  /\ Responded
  /\ prev.kind = "evaluation"
  /\ prev.req.body = req.body
  /\ prev.remote = remote
  /\ prev.req.method # req.method
  /\ prev.req.method # "OPTIONS"
  /\ req.method # "OPTIONS"

\* C29: the service tells no method from another but OPTIONS: a request
\* with a method other than POST is evaluated as the POST with the same
\* body is, the response depending on the body and the answer of the corpus
\* only.
C29_MethodIsIgnored ==
  SameBodyOtherMethod
    => /\ resp = prev.resp
       /\ resp.status # 405

\* A PUT of a compliant password has been answered as the POST before it,
\* with the breached result.
C29_Witness ==
  /\ SameBodyOtherMethod
  /\ prev.req.method = "POST"
  /\ req.method = "PUT"
  /\ PasswordGiven
  /\ ThePassword = PwTwelve
  /\ HasField("breachCount")
  /\ prev.resp.status = 200

\* The scrape handler is between the insert of its record and the update
\* of it.
ScrapeInFlight == scrape.pc \in {"scraping", "completing", "failing"}

\* C30: in the scrape pipeline a record is inserted with status 'pending';
\* when the handler has answered success: true the record it created is
\* 'completed', when it has answered success: false with a scrapeId the
\* record is 'failed', and no record the handler has answered for is still
\* 'pending'.
C30_AnsweredRecordIsSettled ==
  /\ ScrapeInFlight => scrape.table[scrape.scrapeRecord].status = "pending"
  /\ (scrape.pc = "done" /\ "success" \in DOMAIN scrape.resp.body)
       => scrape.table[scrape.resp.body.scrapeId].status =
            (IF scrape.resp.body.success THEN "completed" ELSE "failed")
  /\ \A id \in 1..Len(scrape.table) :
       scrape.table[id].status = "pending"
         => (ScrapeInFlight /\ scrape.scrapeRecord = id)

====
